---- MODULE Spec2Model ----
(***************************************************************************)
(* The share-link machinery of the playground: the GENERATE_LZ_STRING      *)
(* watcher (updateQueryString), the SHORTEN_URL handler with its race      *)
(* against a 10 second delay, the request shortenURLRequest sends, and     *)
(* the decoder handleHash that reads a shared link back.                   *)
(*                                                                         *)
(* Texts (editor contents, query strings, hashes, URLs) are sequences of   *)
(* one-character strings; the fields of the shortening service's reply,    *)
(* keywords, notification texts and the short-URL value are plain strings. *)
(***************************************************************************)
EXTENDS Integers, Sequences, FiniteSets, TLC

(***************************************************************************)
(* Bounds of the model.                                                    *)
(***************************************************************************)
\* longest editor text the encoder/decoder specification draws
MaxLen == 3
\* longest editor text an edit types in the share-flow specification
MaxEditLen == 1
\* number of SHORTEN_URL actions (one forked task each) in the shorten specification
MaxTasks == 2

(***************************************************************************)
(* Characters and JavaScript values.                                       *)
(***************************************************************************)
\* the wide character U+01F0 (charCodeAt = 496 >= 256)
Wide == "U+01F0"

\* characters the editor texts are made of
Alphabet == {"1", "+", "}", Wide}

charCodeAt(c) ==
  CASE c = "1" -> 49
    [] c = "+" -> 43
    [] c = "}" -> 125
    [] c = Wide -> 496

\* the value `undefined` where a plain string is expected
Undefined == "<undefined>"

\* the value `undefined` where a text is expected
UndefinedText == << "<undefined>" >>

RECURSIVE Pow2(_)
Pow2(n) == IF n = 0 THEN 1 ELSE 2 * Pow2(n - 1)

\* value written least significant bit first on n bits
BitsLE(value, n) == [i \in 1..n |-> (value \div Pow2(i - 1)) % 2]

RECURSIVE Repeat(_, _)
Repeat(x, n) == IF n = 0 THEN << >> ELSE << x >> \o Repeat(x, n - 1)

(***************************************************************************)
(* lz-string: compressToEncodedURIComponent and its inverse.               *)
(* The dictionary is the sequence of phrases in the order they were        *)
(* entered; the phrase at index i has code i + 2 (codes 0, 1 and 2 mark an *)
(* 8 bit character, a 16 bit character and the end of the stream).         *)
(***************************************************************************)
\* the 6 bit alphabet of the URI-safe encoding
keyStrUriSafe ==
  << "A","B","C","D","E","F","G","H","I","J","K","L","M","N","O","P","Q","R","S","T",
     "U","V","W","X","Y","Z","a","b","c","d","e","f","g","h","i","j","k","l","m","n",
     "o","p","q","r","s","t","u","v","w","x","y","z","0","1","2","3","4","5","6","7",
     "8","9","+","-","$" >>

InDictionary(dictionary, phrase) == \E i \in 1..Len(dictionary) : dictionary[i] = phrase

CodeOf(dictionary, phrase) == 2 + (CHOOSE i \in 1..Len(dictionary) : dictionary[i] = phrase)

\* context_enlargeIn--; if it reached 0, the codes grow by one bit
Enlarge(ctx) ==
  IF ctx.enlargeIn = 1
    THEN [ctx EXCEPT !.enlargeIn = Pow2(ctx.numBits), !.numBits = ctx.numBits + 1]
    ELSE [ctx EXCEPT !.enlargeIn = ctx.enlargeIn - 1]

\* "output the code for w": a first occurrence of a character is written raw
OutputW(ctx) ==
  IF ctx.w \in ctx.dictionaryToCreate
    THEN LET code == charCodeAt(ctx.w[1])
             raw  == IF code < 256
                       THEN BitsLE(0, ctx.numBits) \o BitsLE(code, 8)
                       ELSE BitsLE(1, ctx.numBits) \o BitsLE(code, 16)
             c1   == Enlarge([ctx EXCEPT !.data = ctx.data \o raw])
         IN  Enlarge([c1 EXCEPT !.dictionaryToCreate = c1.dictionaryToCreate \ {ctx.w}])
    ELSE Enlarge([ctx EXCEPT
                    !.data = ctx.data \o BitsLE(CodeOf(ctx.dictionary, ctx.w), ctx.numBits)])

\* one round of the loop over the characters of the input
CompressChar(ctx, c) ==
  LET c0 == IF InDictionary(ctx.dictionary, << c >>)
              THEN ctx
              ELSE [ctx EXCEPT !.dictionary = Append(ctx.dictionary, << c >>),
                               !.dictionaryToCreate = ctx.dictionaryToCreate \cup {<< c >>}]
      wc == Append(c0.w, c)
  IN  IF InDictionary(c0.dictionary, wc)
        THEN [c0 EXCEPT !.w = wc]
        ELSE LET c1 == OutputW(c0)
             IN  [c1 EXCEPT !.dictionary = Append(c1.dictionary, wc), !.w = << c >>]

RECURSIVE CompressFrom(_, _, _)
CompressFrom(uncompressed, ii, ctx) ==
  IF ii > Len(uncompressed)
    THEN ctx
    ELSE CompressFrom(uncompressed, ii + 1, CompressChar(ctx, uncompressed[ii]))

\* six bits, most significant first, as a number
SixBits(bits, at) ==
  32 * bits[at] + 16 * bits[at + 1] + 8 * bits[at + 2] + 4 * bits[at + 3]
    + 2 * bits[at + 4] + bits[at + 5]

\* _compress(uncompressed, 6, a => keyStrUriSafe.charAt(a))
compressToEncodedURIComponent(uncompressed) ==
  LET start == [dictionary |-> << >>, dictionaryToCreate |-> {}, w |-> << >>,
                enlargeIn |-> 2, numBits |-> 2, data |-> << >>]
      looped == CompressFrom(uncompressed, 1, start)
      last   == IF looped.w # << >> THEN OutputW(looped) ELSE looped
      marked == last.data \o BitsLE(2, last.numBits)
      \* "flush the last char": at least one zero bit, up to the next full character
      bits   == marked \o Repeat(0, 6 - (Len(marked) % 6))
  IN  [k \in 1..(Len(bits) \div 6) |-> keyStrUriSafe[1 + SixBits(bits, 6 * k - 5)]]

\* getBaseValue(keyStrUriSafe, character): the index of the character, undefined
\* (read as 0 by the bit operations) for a character outside the alphabet
getBaseValue(character) ==
  IF \E i \in 1..Len(keyStrUriSafe) : keyStrUriSafe[i] = character
    THEN (CHOOSE i \in 1..Len(keyStrUriSafe) : keyStrUriSafe[i] = character) - 1
    ELSE 0

\* the bits of the input, six per character, most significant first; reading
\* past the end of the input reads zeros
RECURSIVE InputBits(_, _)
InputBits(input, from) ==
  IF from > Len(input)
    THEN << >>
    ELSE LET v == getBaseValue(input[from])
         IN  << (v \div 32) % 2, (v \div 16) % 2, (v \div 8) % 2,
                (v \div 4) % 2, (v \div 2) % 2, v % 2 >> \o InputBits(input, from + 1)

BitAt(bits, pos) == IF pos <= Len(bits) THEN bits[pos] ELSE 0

\* n bits read from position pos, least significant first
RECURSIVE ReadBits(_, _, _)
ReadBits(bits, pos, n) ==
  IF n = 0 THEN 0 ELSE BitAt(bits, pos) + 2 * ReadBits(bits, pos + 1, n - 1)

\* the character with a given code, as far as the model's alphabet has one
fromCharCode(code) ==
  IF \E c \in Alphabet : charCodeAt(c) = code
    THEN CHOOSE c \in Alphabet : charCodeAt(c) = code
    ELSE "?"

\* data.index, the number of input characters fetched once `pos - 1` bits are consumed
FetchedIndex(pos) == ((pos - 1) \div 6) + 1

\* the main loop of _decompress; st = [pos, dictionary, enlargeIn, numBits, w, result]
\* where dictionary[i] is the phrase of code i + 2
RECURSIVE DecompressLoop(_, _, _)
DecompressLoop(bits, length, st) ==
  IF FetchedIndex(st.pos) > length
    THEN << >>
    ELSE
      LET c0   == ReadBits(bits, st.pos, st.numBits)
          p0   == st.pos + st.numBits
          wideBits == IF c0 = 0 THEN 8 ELSE 16
          \* cases 0 and 1 enter a character into the dictionary
          isChar == c0 \in {0, 1}
          dict1  == IF isChar
                      THEN Append(st.dictionary, << fromCharCode(ReadBits(bits, p0, wideBits)) >>)
                      ELSE st.dictionary
          p1     == IF isChar THEN p0 + wideBits ELSE p0
          c      == IF isChar THEN Len(dict1) + 2 ELSE c0
          e1     == IF isChar THEN st.enlargeIn - 1 ELSE st.enlargeIn
          nb1    == IF e1 = 0 THEN st.numBits + 1 ELSE st.numBits
          e2     == IF e1 = 0 THEN Pow2(st.numBits) ELSE e1
          dictSize == Len(dict1) + 3
          known  == c >= 3 /\ c - 2 <= Len(dict1)
          entry  == IF known THEN dict1[c - 2] ELSE Append(st.w, st.w[1])
          e3     == e2 - 1
      IN  IF c0 = 2
            THEN st.result
            ELSE IF ~known /\ c # dictSize
              THEN UndefinedText
              ELSE DecompressLoop(bits, length,
                     [pos |-> p1,
                      dictionary |-> Append(dict1, Append(st.w, entry[1])),
                      enlargeIn |-> IF e3 = 0 THEN Pow2(nb1) ELSE e3,
                      numBits |-> IF e3 = 0 THEN nb1 + 1 ELSE nb1,
                      w |-> entry,
                      result |-> st.result \o entry])

\* decompressFromEncodedURIComponent(input); the null it returns for an empty or
\* corrupt input is UndefinedText here
decompressFromEncodedURIComponent(input) ==
  IF input = << >>
    THEN UndefinedText
    ELSE
      LET replaced == [i \in 1..Len(input) |-> IF input[i] = " " THEN "+" ELSE input[i]]
          bits   == InputBits(replaced, 1)
          next   == ReadBits(bits, 1, 2)
          first  == IF next = 0
                      THEN << fromCharCode(ReadBits(bits, 3, 8)) >>
                      ELSE << fromCharCode(ReadBits(bits, 3, 16)) >>
          pos    == IF next = 0 THEN 11 ELSE 19
      IN  IF next = 2
            THEN << >>
            ELSE IF next = 3
            THEN UndefinedText
            ELSE DecompressLoop(bits, Len(replaced),
                   [pos |-> pos, dictionary |-> << first >>, enlargeIn |-> 4,
                    numBits |-> 3, w |-> first, result |-> first])

(***************************************************************************)
(* query-string: stringify (the encoder's side) and parse (the decoder's). *)
(***************************************************************************)
Digits == << "0", "1", "2", "3", "4", "5", "6", "7", "8", "9" >>

\* String(n) for a number n >= 0
RECURSIVE NumberToText(_)
NumberToText(n) ==
  IF n < 10 THEN << Digits[n + 1] >> ELSE Append(NumberToText(n \div 10), Digits[(n % 10) + 1])

\* strict-uri-encode of one character: what encodeURIComponent leaves alone stays,
\* the characters below become their percent escape
EncodeChar(c) ==
  CASE c = "+" -> << "%", "2", "B" >>
    [] c = "$" -> << "%", "2", "4" >>
    [] c = " " -> << "%", "2", "0" >>
    [] c = "&" -> << "%", "2", "6" >>
    [] c = "=" -> << "%", "3", "D" >>
    [] c = "#" -> << "%", "2", "3" >>
    [] c = "%" -> << "%", "2", "5" >>
    [] OTHER   -> << c >>

RECURSIVE strictUriEncode(_)
strictUriEncode(text) ==
  IF text = << >> THEN << >> ELSE EncodeChar(Head(text)) \o strictUriEncode(Tail(text))

\* the character a percent escape stands for
DecodeEscape(hi, lo) ==
  CASE << hi, lo >> = << "2", "B" >> -> "+"
    [] << hi, lo >> = << "2", "4" >> -> "$"
    [] << hi, lo >> = << "2", "0" >> -> " "
    [] << hi, lo >> = << "2", "6" >> -> "&"
    [] << hi, lo >> = << "3", "D" >> -> "="
    [] << hi, lo >> = << "2", "3" >> -> "#"
    [] << hi, lo >> = << "2", "5" >> -> "%"
    [] OTHER -> "?"

\* decodeURIComponent
RECURSIVE decodeUriComponent(_)
decodeUriComponent(text) ==
  IF text = << >>
    THEN << >>
    ELSE IF Head(text) = "%" /\ Len(text) >= 3
      THEN << DecodeEscape(text[2], text[3]) >> \o decodeUriComponent(SubSeq(text, 4, Len(text)))
      ELSE << Head(text) >> \o decodeUriComponent(Tail(text))

\* the keys of the share link, in the order stringify sorts them
KeyExec == << "e", "x", "e", "c" >>
KeyExt == << "e", "x", "t" >>
KeyPrgrm == << "p", "r", "g", "r", "m" >>
KeyVariant == << "v", "a", "r", "i", "a", "n", "t" >>
KeyLz == << "l", "z" >>
KeyChap == << "c", "h", "a", "p" >>

\* qs.stringify of the pairs of an object, given in sorted key order
RECURSIVE stringify(_)
stringify(pairs) ==
  IF pairs = << >>
    THEN << >>
    ELSE LET one == strictUriEncode(pairs[1].key) \o << "=" >> \o strictUriEncode(pairs[1].value)
         IN  IF Len(pairs) = 1 THEN one ELSE one \o << "&" >> \o stringify(Tail(pairs))

\* the position of the first occurrence of character c in text, 0 if there is none
RECURSIVE IndexOf(_, _, _)
IndexOf(text, c, from) ==
  IF from > Len(text) THEN 0
  ELSE IF text[from] = c THEN from
  ELSE IndexOf(text, c, from + 1)

\* text split at every occurrence of character c
RECURSIVE Split(_, _)
Split(text, c) ==
  LET at == IndexOf(text, c, 1)
  IN  IF at = 0
        THEN << text >>
        ELSE << SubSeq(text, 1, at - 1) >> \o Split(SubSeq(text, at + 1, Len(text)), c)

PlusToSpace(text) == [i \in 1..Len(text) |-> IF text[i] = "+" THEN " " ELSE text[i]]

\* one key=value parameter: split at the first "=", "+" read as a space, both
\* sides percent-decoded; a parameter without "=" has no value
ParseParam(param) ==
  LET at == IndexOf(param, "=", 1)
  IN  IF at = 0
        THEN [key |-> decodeUriComponent(param), value |-> UndefinedText]
        ELSE [key |-> decodeUriComponent(SubSeq(param, 1, at - 1)),
              value |-> decodeUriComponent(PlusToSpace(SubSeq(param, at + 1, Len(param))))]

\* parseQuery(hash): the leading "#", "?" or "&" is dropped, the rest is split at
\* "&" into parameters; empty parameters are skipped
parseQuery(hash) ==
  LET stripped == IF hash # << >> /\ Head(hash) \in {"#", "?", "&"} THEN Tail(hash) ELSE hash
      params   == SelectSeq(Split(stripped, "&"), LAMBDA x : x # << >>)
  IN  [i \in 1..Len(params) |-> ParseParam(params[i])]

\* qs.key for a parsed query: the value of the parameter, undefined if absent
Param(qs, key) ==
  IF \E i \in 1..Len(qs) : qs[i].key = key
    THEN qs[CHOOSE i \in 1..Len(qs) : qs[i].key = key].value
    ELSE UndefinedText

IsDigit(c) == \E i \in 1..10 : Digits[i] = c

DigitValue(c) == (CHOOSE i \in 1..10 : Digits[i] = c) - 1

\* the number read from the leading digits of text, acc being the value so far
RECURSIVE ReadDigits(_, _)
ReadDigits(text, acc) ==
  IF text = << >> \/ ~IsDigit(Head(text))
    THEN acc
    ELSE ReadDigits(Tail(text), 10 * acc + DigitValue(Head(text)))

\* stringParamToInt(param): << n >> for the integer parseInt(param, 10) reads (an
\* optional sign, then the leading digits), << >> for its null (param absent, or
\* no digit to read)
stringParamToInt(param) ==
  IF param = UndefinedText \/ param = << >>
    THEN << >>
    ELSE LET signed == Head(param) \in {"-", "+"}
             digits == IF signed THEN Tail(param) ELSE param
         IN  IF digits = << >> \/ ~IsDigit(Head(digits))
               THEN << >>
               ELSE IF Head(param) = "-"
                 THEN << 0 - ReadDigits(digits, 0) >>
                 ELSE << ReadDigits(digits, 0) >>

(***************************************************************************)
(* The encoder (updateQueryString) and the decoder (handleHash).           *)
(***************************************************************************)
defaultEditorValue == << "1", "+", "1" >>

\* execTime of a fresh workspace
defaultExecTime == 1000

\* Variant.DEFAULT, the variant of every entry of sourceLanguages
VariantDefault == << "d", "e", "f", "a", "u", "l", "t" >>

\* ExternalLibraryName.NONE and one more library name
ExternalNone == << "N", "O", "N", "E" >>
ExternalRunes == << "R", "U", "N", "E", "S" >>

\* qs.stringify({prgrm: compressToEncodedURIComponent(code), variant, ext, exec}),
\* whose keys come out sorted
newQueryString(c, v, ext, exec) ==
  stringify(<< [key |-> KeyExec, value |-> NumberToText(exec)],
               [key |-> KeyExt, value |-> ext],
               [key |-> KeyPrgrm, value |-> compressToEncodedURIComponent(c)],
               [key |-> KeyVariant, value |-> v] >>)

\* what one undisturbed run of updateQueryString publishes for a snapshot
updateQueryString(c, v, ext, exec) ==
  IF c = << >> \/ c = defaultEditorValue THEN << >> ELSE newQueryString(c, v, ext, exec)

\* a decoder that knows the key lz only
ProgramLz_lzOnly(qs) == Param(qs, KeyLz)

\* qs.lz ?? qs.prgrm
ProgramLz(qs) == IF Param(qs, KeyLz) # UndefinedText THEN Param(qs, KeyLz) ELSE Param(qs, KeyPrgrm)

Max(a, b) == IF a >= b THEN a ELSE b

\* stringParamToInt(qs.exec || '1000') || 1000, without the floor of Math.max
HashExecTime_noFloor(qs) ==
  LET exec   == Param(qs, KeyExec)
      parsed == stringParamToInt(IF exec = UndefinedText \/ exec = << >>
                                   THEN NumberToText(1000) ELSE exec)
  IN  IF parsed = << >> \/ parsed = << 0 >> THEN 1000 ELSE parsed[1]

\* Math.max(stringParamToInt(qs.exec || '1000') || 1000, 1000)
HashExecTime(qs) ==
  LET exec   == Param(qs, KeyExec)
      parsed == stringParamToInt(IF exec = UndefinedText \/ exec = << >>
                                   THEN NumberToText(1000) ELSE exec)
  IN  Max(IF parsed = << >> \/ parsed = << 0 >> THEN 1000 ELSE parsed[1], 1000)

\* the calls handleHash(hash, props) makes on props, in order
handleHash(hash) ==
  LET qs        == parseQuery(hash)
      chap      == stringParamToInt(Param(qs, KeyChap))
      \* stringParamToInt(qs.chap) || undefined
      chapter   == IF chap = << 0 >> THEN << >> ELSE chap
      programLz == ProgramLz(qs)
      \* programLz && decompressFromEncodedURIComponent(programLz)
      program   == IF programLz = UndefinedText \/ programLz = << >>
                     THEN programLz
                     ELSE decompressFromEncodedURIComponent(programLz)
      \* every language of sourceLanguages has Variant.DEFAULT, so the find either
      \* yields Variant.DEFAULT or nothing, and ?? Variant.DEFAULT gives the same
      variant   == VariantDefault
      execTime  == HashExecTime(qs)
  IN  (IF program # UndefinedText /\ program # << >>
         THEN << [fn |-> "handleEditorValueChange", val |-> program] >>
         ELSE << >>)
      \o (IF chapter # << >>
            THEN << [fn |-> "handleChapterSelect", chapter |-> chapter[1], variant |-> variant] >>
            ELSE << >>)
      \o (IF execTime # 0
            THEN << [fn |-> "handleChangeExecTime", execTime |-> execTime] >>
            ELSE << >>)

(***************************************************************************)
(* The SHORTEN_URL handler after its race.                                 *)
(***************************************************************************)
\* Constants.urlShortenerBase
urlShortenerBase == "https://short.url/"

errorMsg == "ERROR"

GenericWarning == "Something went wrong trying to create the link."

\* what the race can hand to `resp`: nothing (undefined), null, or a parsed reply
UndefinedResp == [undefined |-> TRUE]
Null == [null |-> TRUE]

\* a reply without a url field
NoUrl == [absent |-> TRUE]

\* the replies of the service: status, message, shorturl and url.keyword are each
\* present or absent
Payloads ==
  [status : {Undefined, "success", "fail"},
   message : {Undefined, "bad keyword"},
   shorturl : {Undefined, "https://short.url/abc"},
   url : {NoUrl, [keyword |-> Undefined], [keyword |-> "abc"]}]

IsPayload(resp) == resp # UndefinedResp /\ resp # Null

\* a string as JavaScript's + writes it
JsString(v) == IF v = Undefined THEN "undefined" ELSE v

showWarningMessage(text) == [kind |-> "warning", text |-> text]
showSuccessMessage(text) == [kind |-> "success", text |-> text]

\* !resp || timeout
FailedOrTimedOut(resp, timeout) == ~IsPayload(resp) \/ timeout

\* the two tests joined by || instead of &&
ApplicationError_or(resp) == resp.status # "success" \/ resp.shorturl = Undefined

\* resp.status !== 'success' && !resp.shorturl
ApplicationError(resp) == resp.status # "success" /\ resp.shorturl = Undefined

\* the generic text shown instead of the reply's own message
ApplicationErrorText_generic(resp) == GenericWarning

\* the text of the warning shown for an application-level failure
ApplicationErrorText(resp) == resp.message

\* yield put(updateShortURL(errorMsg)); return yield call(showWarningMessage, text)
Failure(text) ==
  [shortURL |-> errorMsg, shown |-> << showWarningMessage(text) >>, pc |-> "done"]

\* from the second `if` on, for a reply that is an object: the value left in the
\* short-URL slot (cur being the value before), the notifications shown, and whether
\* the handler returns ("done") or throws ("threw": resp.url.keyword of a reply
\* without url is a TypeError, raised after the success message was shown)
Reply(resp, cur) ==
  IF ApplicationError(resp)
    THEN Failure(ApplicationErrorText(resp))
    ELSE LET shown == IF resp.status # "success"
                        THEN << showSuccessMessage(resp.message) >>
                        ELSE << >>
         IN  IF resp.url = NoUrl
               THEN [shortURL |-> cur, shown |-> shown, pc |-> "threw"]
               ELSE [shortURL |-> urlShortenerBase \o JsString(resp.url.keyword),
                     shown |-> shown, pc |-> "done"]

\* `if (timeout)` in place of `if (!resp || timeout)`: the status of a missing
\* reply is read, which throws
AfterRace_noReplyCheck(resp, timeout, cur) ==
  IF timeout THEN Failure(GenericWarning)
  ELSE IF ~IsPayload(resp) THEN [shortURL |-> cur, shown |-> << >>, pc |-> "threw"]
  ELSE Reply(resp, cur)

\* the handler from the end of the race on
AfterRace(resp, timeout, cur) ==
  IF FailedOrTimedOut(resp, timeout) THEN Failure(GenericWarning) ELSE Reply(resp, cur)

(***************************************************************************)
(* The state.                                                              *)
(***************************************************************************)
VARIABLES
  code,             \* state.workspaces.playground.editorTabs[0].value
  variant,          \* state.workspaces.playground.context.variant
  externalLibrary,  \* state.workspaces.playground.externalLibrary
  execTime,         \* state.workspaces.playground.execTime
  queryString,      \* state.playground.queryString
  shortURL,         \* state.playground.shortURL
  notifications,    \* the notifications shown so far, oldest first
  watcher,          \* the run of updateQueryString: its position and its locals
  tasks,            \* the tasks forked for the SHORTEN_URL actions, in order
  hash,             \* the hash last handed to handleHash
  hashCalls,        \* the calls that handleHash made on its props
  view              \* the Playground component: its state hooks and what it reads for the tabs

vars ==
  << code, variant, externalLibrary, execTime, queryString, shortURL, notifications,
     watcher, tasks, hash, hashCalls, view >>

\* the EditorSnapshot
workspace == << code, variant, externalLibrary, execTime >>

TaskIds == 1..MaxTasks

\* no updateQueryString is running
IdleWatcher ==
  [pc |-> "idle", code |-> UndefinedText, variant |-> UndefinedText,
   external |-> UndefinedText, execTime |-> 0]

\* no value delivered by the call of shortenURLRequest
NotSettled == [kind |-> "none"]

\* a task the watcher of SHORTEN_URL has not forked yet
IdleTask ==
  [pc |-> "idle", url |-> UndefinedText, keyword |-> Undefined,
   net |-> "idle", settled |-> NotSettled, timer |-> "idle"]

RECURSIVE TextsUpTo(_, _)
TextsUpTo(chars, n) ==
  IF n = 0
    THEN {<< >>}
    ELSE LET shorter == TextsUpTo(chars, n - 1)
         IN  shorter \cup {Append(text, c) : text \in shorter, c \in chars}

\* the keywords a user asks for
Keywords == {"abc"}

\* the execution-time budgets a user sets
ExecTimes == {defaultExecTime, 2 * defaultExecTime}

\* the texts a user types in the share flow
EditAlphabet == {"1", "}"}
EditTexts == TextsUpTo(EditAlphabet, MaxEditLen) \cup {defaultEditorValue}

\* the ids of the side-content tabs the component names
SideContentTypes ==
  {"introduction", "substVisualizer", "mobileEditor", "mobileEditorRun", "remoteExecution"}

mobileOnlyTabIds == {"mobileEditor", "mobileEditorRun"}

desktopOnlyTabIds == {"introduction"}

\* props.playgroundSourceChapter: a chapter on each side of `<= 2`
Chapters == {2, 3}

\* the component on a desktop viewport once its effects have run: the
\* introduction tab is selected, no breakpoints are set
MountedView ==
  [selectedTab |-> "introduction", isMobileBreakpoint |-> FALSE, hasBreakpoints |-> FALSE,
   playgroundSourceChapter |-> 2, effectDue |-> FALSE,
   handled |-> << "mount" >>, calls |-> << >>]

\* defaultState: the playground workspace of createDefaultWorkspace('playground'),
\* defaultPlayground without queryString and shortURL
Init ==
  /\ code = defaultEditorValue
  /\ variant = VariantDefault
  /\ externalLibrary = ExternalNone
  /\ execTime = defaultExecTime
  /\ queryString = UndefinedText
  /\ shortURL = Undefined
  /\ notifications = << >>
  /\ watcher = IdleWatcher
  /\ tasks = [t \in TaskIds |-> IdleTask]
  /\ hash = UndefinedText
  /\ hashCalls = << >>
  /\ view = MountedView

\* the call of shortenURLRequest of task t has settled and the saga that waits for
\* it has not resumed yet: the resumption is a microtask
Resuming(t) == tasks[t].settled # NotSettled

\* updateQueryString is between its first select and its put: these effects do
\* not block, the run completes inside the dispatch that started it
Dispatching == watcher.pc # "idle"

\* a watcher whose effects give way to other events
Quiet_watcherYields == \A t \in TaskIds : ~Resuming(t)

\* the event loop is free to run a timer, a network event or a user event
Quiet == ~Dispatching /\ \A t \in TaskIds : ~Resuming(t)

(***************************************************************************)
(* The editor and the watcher.                                             *)
(***************************************************************************)
\* an edit that also regenerates the query string
EditorValueChange_regenerates(val) ==
  /\ Quiet
  /\ code' = val
  /\ queryString' = updateQueryString(val, variant, externalLibrary, execTime)
  /\ UNCHANGED << variant, externalLibrary, execTime, shortURL,
                  notifications, watcher, tasks, hash, hashCalls, view >>

\* props.handleEditorValueChange(val)
EditorValueChange(val) ==
  /\ Quiet
  /\ code' = val
  /\ UNCHANGED << variant, externalLibrary, execTime, queryString, shortURL,
                  notifications, watcher, tasks, hash, hashCalls, view >>

\* a change of the execution time that is handled in the middle of a run
ChangeExecTime_midRun(time) ==
  /\ \A t \in TaskIds : ~Resuming(t)
  /\ execTime' = time
  /\ UNCHANGED << code, variant, externalLibrary, queryString, shortURL,
                  notifications, watcher, tasks, hash, hashCalls, view >>

\* props.handleChangeExecTime(execTime)
ChangeExecTime(time) ==
  /\ Quiet
  /\ execTime' = time
  /\ UNCHANGED << code, variant, externalLibrary, queryString, shortURL,
                  notifications, watcher, tasks, hash, hashCalls, view >>

\* dispatch(generateLzString()): takeEvery(GENERATE_LZ_STRING, updateQueryString)
\* forks updateQueryString
GenerateLzString ==
  /\ Quiet
  /\ watcher' = [IdleWatcher EXCEPT !.pc = "selectCode"]
  /\ UNCHANGED << code, variant, externalLibrary, execTime, queryString, shortURL,
                  notifications, tasks, hash, hashCalls, view >>

\* the test without `!code`
SelectCode_noEmptyCheck ==
  /\ watcher.pc = "selectCode"
  /\ watcher' = [watcher EXCEPT
                   !.code = code,
                   !.pc = IF code = defaultEditorValue THEN "putEmpty" ELSE "selectVariant"]
  /\ UNCHANGED << code, variant, externalLibrary, execTime, queryString, shortURL,
                  notifications, tasks, hash, hashCalls, view >>

\* const code = yield select(... editorTabs[0].value); if (!code || code === defaultEditorValue)
SelectCode ==
  /\ watcher.pc = "selectCode"
  /\ watcher' = [watcher EXCEPT
                   !.code = code,
                   !.pc = IF code = << >> \/ code = defaultEditorValue
                            THEN "putEmpty" ELSE "selectVariant"]
  /\ UNCHANGED << code, variant, externalLibrary, execTime, queryString, shortURL,
                  notifications, tasks, hash, hashCalls, view >>

\* a put of the empty query string that also forgets the short URL
PutEmpty_forgetsShortURL ==
  /\ watcher.pc = "putEmpty"
  /\ queryString' = << >>
  /\ shortURL' = Undefined
  /\ watcher' = IdleWatcher
  /\ UNCHANGED << code, variant, externalLibrary, execTime, notifications,
                  tasks, hash, hashCalls, view >>

\* yield put(changeQueryString('')); return
PutEmpty ==
  /\ watcher.pc = "putEmpty"
  /\ queryString' = << >>
  /\ watcher' = IdleWatcher
  /\ UNCHANGED << code, variant, externalLibrary, execTime, shortURL, notifications,
                  tasks, hash, hashCalls, view >>

\* const variant = yield select(... context.variant)
SelectVariant ==
  /\ watcher.pc = "selectVariant"
  /\ watcher' = [watcher EXCEPT !.variant = variant, !.pc = "selectExternal"]
  /\ UNCHANGED << code, variant, externalLibrary, execTime, queryString, shortURL,
                  notifications, tasks, hash, hashCalls, view >>

\* const external = yield select(... externalLibrary)
SelectExternal ==
  /\ watcher.pc = "selectExternal"
  /\ watcher' = [watcher EXCEPT !.external = externalLibrary, !.pc = "selectExecTime"]
  /\ UNCHANGED << code, variant, externalLibrary, execTime, queryString, shortURL,
                  notifications, tasks, hash, hashCalls, view >>

\* const execTime = yield select(... execTime)
SelectExecTime ==
  /\ watcher.pc = "selectExecTime"
  /\ watcher' = [watcher EXCEPT !.execTime = execTime, !.pc = "put"]
  /\ UNCHANGED << code, variant, externalLibrary, execTime, queryString, shortURL,
                  notifications, tasks, hash, hashCalls, view >>

\* window.location.protocol + '//' + window.location.host
Origin == << "https://host" >>

\* a value inside a template literal
TextOf(text) ==
  IF text = UndefinedText THEN << "u", "n", "d", "e", "f", "i", "n", "e", "d" >> ELSE text

\* `${protocol}//${host}/playground#${queryString}`
RequestUrl(query) ==
  Origin \o << "/", "p", "l", "a", "y", "g", "r", "o", "u", "n", "d", "#" >> \o TextOf(query)

\* a put that also re-addresses the requests in flight
PutQueryString_readdresses ==
  /\ watcher.pc = "put"
  /\ queryString' =
       newQueryString(watcher.code, watcher.variant, watcher.external, watcher.execTime)
  /\ watcher' = IdleWatcher
  /\ tasks' = [t \in TaskIds |->
                 IF tasks[t].pc = "racing"
                   THEN [tasks[t] EXCEPT !.url = RequestUrl(queryString')]
                   ELSE tasks[t]]
  /\ UNCHANGED << code, variant, externalLibrary, execTime, shortURL, notifications,
                  hash, hashCalls, view >>

\* yield put(changeQueryString(newQueryString))
PutQueryString ==
  /\ watcher.pc = "put"
  /\ queryString' =
       newQueryString(watcher.code, watcher.variant, watcher.external, watcher.execTime)
  /\ watcher' = IdleWatcher
  /\ UNCHANGED << code, variant, externalLibrary, execTime, shortURL, notifications,
                  tasks, hash, hashCalls, view >>

\* handleHash(hash, props) for the link that carries the stored query string
HandleHash ==
  /\ Quiet
  /\ queryString # UndefinedText
  /\ hash' = << "#" >> \o queryString
  /\ hashCalls' = handleHash(hash')
  /\ UNCHANGED << code, variant, externalLibrary, execTime, queryString, shortURL,
                  notifications, watcher, tasks, view >>

(***************************************************************************)
(* The SHORTEN_URL handler, the request and the delay it races.            *)
(***************************************************************************)
\* dispatch(shortenURL(keyword)): the next task is forked, reads the stored query
\* string, calls shortenURLRequest (which runs up to its fetch) and arms the delay
ShortenURL(t, keyword) ==
  /\ Quiet
  /\ tasks[t].pc = "idle"
  /\ \A u \in TaskIds : u < t => tasks[u].pc # "idle"
  /\ tasks' = [tasks EXCEPT ![t] =
                 [pc |-> "racing", url |-> RequestUrl(queryString), keyword |-> keyword,
                  net |-> "fetching", settled |-> NotSettled, timer |-> "armed"]]
  /\ UNCHANGED << code, variant, externalLibrary, execTime, queryString, shortURL,
                  notifications, watcher, hash, hashCalls, view >>

\* a call that stays subscribed after its race is over
Waiting_notCancelled(t) == tasks[t].pc # "idle"

\* the race of task t still waits for the call: once the delay has won, the call
\* effect is cancelled and what the request brings is dropped
Waiting(t) == tasks[t].pc = "racing"

\* the call of shortenURLRequest ends as `net` says and settles with `outcome`
Settle(t, net, outcome) ==
  [tasks EXCEPT ![t].net = net,
                ![t].settled = IF Waiting(t) THEN outcome ELSE NotSettled]

\* the ways a request ends: fetch rejected, the response was not ok, resp.json()
\* threw, or the body was parsed
Ended == {"fetchRejected", "notOk", "jsonThrew", "parsed"}

\* fetch rejects: shortenURLRequest rejects
FetchRejects(t) ==
  /\ Quiet
  /\ tasks[t].net = "fetching"
  /\ tasks' = Settle(t, "fetchRejected", [kind |-> "rejected"])
  /\ UNCHANGED << code, variant, externalLibrary, execTime, queryString, shortURL,
                  notifications, watcher, hash, hashCalls, view >>

\* fetch resolves: a response that is not ok makes shortenURLRequest return null,
\* an ok one is handed to resp.json()
FetchResponds(t, ok) ==
  /\ Quiet
  /\ tasks[t].net = "fetching"
  /\ tasks' = IF ok
                THEN [tasks EXCEPT ![t].net = "parsing"]
                ELSE Settle(t, "notOk", [kind |-> "resolved", value |-> Null])
  /\ UNCHANGED << code, variant, externalLibrary, execTime, queryString, shortURL,
                  notifications, watcher, hash, hashCalls, view >>

\* a request that is sent again when its body does not parse
JsonThrows_retry(t) ==
  /\ Quiet
  /\ tasks[t].net = "parsing"
  /\ tasks' = [tasks EXCEPT ![t].net = "fetching"]
  /\ UNCHANGED << code, variant, externalLibrary, execTime, queryString, shortURL,
                  notifications, watcher, hash, hashCalls, view >>

\* resp.json() rejects (the body is not JSON): shortenURLRequest rejects
JsonThrows(t) ==
  /\ Quiet
  /\ tasks[t].net = "parsing"
  /\ tasks' = Settle(t, "jsonThrew", [kind |-> "rejected"])
  /\ UNCHANGED << code, variant, externalLibrary, execTime, queryString, shortURL,
                  notifications, watcher, hash, hashCalls, view >>

\* resp.json() resolves: shortenURLRequest returns the parsed body
JsonParsed(t, res) ==
  /\ Quiet
  /\ tasks[t].net = "parsing"
  /\ tasks' = Settle(t, "parsed", [kind |-> "resolved", value |-> res])
  /\ UNCHANGED << code, variant, externalLibrary, execTime, queryString, shortURL,
                  notifications, watcher, hash, hashCalls, view >>

\* a handler that drops its result once a task forked later has finished
Finish_newestOnly(t, resp, timeout, timer) ==
  LET after == AfterRace(resp, timeout, shortURL)
      stale == \E u \in TaskIds : u > t /\ tasks[u].pc \in {"done", "threw"}
  IN  /\ shortURL' = IF stale THEN shortURL ELSE after.shortURL
      /\ notifications' = IF stale THEN notifications ELSE notifications \o after.shown
      /\ tasks' = [tasks EXCEPT ![t].pc = after.pc, ![t].settled = NotSettled,
                                ![t].timer = timer]
      /\ UNCHANGED << code, variant, externalLibrary, execTime, queryString, watcher,
                      hash, hashCalls, view >>

\* the rest of the handler, run to its end, with the race result in resp/timeout
Finish(t, resp, timeout, timer) ==
  LET after == AfterRace(resp, timeout, shortURL)
  IN  /\ shortURL' = after.shortURL
      /\ notifications' = notifications \o after.shown
      /\ tasks' = [tasks EXCEPT ![t].pc = after.pc, ![t].settled = NotSettled,
                                ![t].timer = timer]
      /\ UNCHANGED << code, variant, externalLibrary, execTime, queryString, watcher,
                      hash, hashCalls, view >>

\* the call wins the race: the delay is cancelled; a rejection is caught and leaves
\* resp undefined, a return value becomes resp
CallWins(t) ==
  /\ Resuming(t)
  /\ Finish(t,
            IF tasks[t].settled.kind = "resolved" THEN tasks[t].settled.value ELSE UndefinedResp,
            FALSE, "cancelled")

\* the delay of 10000 ms wins the race: hasTimedOut is true and result undefined;
\* the call effect is cancelled, the request itself goes on
Timeout(t) ==
  /\ Quiet
  /\ tasks[t].pc = "racing"
  /\ tasks[t].timer = "armed"
  /\ Finish(t, UndefinedResp, TRUE, "fired")

\* 10000 ms have passed since the start of a race that the call won: the
\* cancelled delay does not fire
DelayLapses(t) ==
  /\ Quiet
  /\ tasks[t].timer = "cancelled"
  /\ tasks' = [tasks EXCEPT ![t].timer = "lapsed"]
  /\ UNCHANGED << code, variant, externalLibrary, execTime, queryString, shortURL,
                  notifications, watcher, hash, hashCalls, view >>

(***************************************************************************)
(* The side-content tabs of the Playground component.                      *)
(***************************************************************************)
\* the calls a handler makes on its props
UsingSubst(usingSubst) == [fn |-> "handleUsingSubst", arg |-> usingSubst]
ReplOutputClear == [fn |-> "handleReplOutputClear"]

\* setSelectedTab(tab), seen from the effect that depends on selectedTab: it is
\* due again when the value has changed
Selected(v, tab) ==
  [v EXCEPT !.selectedTab = tab, !.effectDue = @ \/ tab # v.selectedTab]

\* onChangeTabs without the exception for the 'Run' tab clicked on the stepper tab
onChangeTabs_noException(v, newTabId, prevTabId) ==
  IF newTabId = prevTabId
    THEN v
    ELSE LET entering == IF v.playgroundSourceChapter <= 2 /\ newTabId = "substVisualizer"
                           THEN << UsingSubst(TRUE) >>
                           ELSE << >>
             leaving  == IF prevTabId = "substVisualizer" /\ ~v.hasBreakpoints
                           THEN << ReplOutputClear, UsingSubst(FALSE) >>
                           ELSE << >>
         IN  [Selected(v, newTabId) EXCEPT !.calls = entering \o leaving]

\* onChangeTabs(newTabId, prevTabId, event)
onChangeTabs(v, newTabId, prevTabId) ==
  IF newTabId = prevTabId
    THEN v
    ELSE IF ~(prevTabId = "substVisualizer" /\ newTabId = "mobileEditorRun")
      THEN LET entering == IF v.playgroundSourceChapter <= 2 /\ newTabId = "substVisualizer"
                             THEN << UsingSubst(TRUE) >>
                             ELSE << >>
               leaving  == IF prevTabId = "substVisualizer" /\ ~v.hasBreakpoints
                             THEN << ReplOutputClear, UsingSubst(FALSE) >>
                             ELSE << >>
           IN  [Selected(v, newTabId) EXCEPT !.calls = entering \o leaving]
      ELSE v

\* the side content reports a click on a tab
OnChangeTabs(newTabId, prevTabId) ==
  /\ ~view.effectDue
  /\ view' = onChangeTabs([view EXCEPT !.handled = << "onChangeTabs", newTabId, prevTabId >>,
                                       !.calls = << >>],
                          newTabId, prevTabId)
  /\ UNCHANGED << code, variant, externalLibrary, execTime, queryString, shortURL,
                  notifications, watcher, tasks, hash, hashCalls >>

\* useResponsive: the viewport crosses the mobile breakpoint
ResponsiveChange ==
  /\ ~view.effectDue
  /\ view' = [view EXCEPT !.isMobileBreakpoint = ~@, !.effectDue = TRUE,
                          !.handled = << "responsive" >>, !.calls = << >>]
  /\ UNCHANGED << code, variant, externalLibrary, execTime, queryString, shortURL,
                  notifications, watcher, tasks, hash, hashCalls >>

\* an effect that knows the mobile-only tabs only
BreakpointEffect_mobileOnly ==
  /\ view.effectDue
  /\ view' = LET ran == [view EXCEPT !.effectDue = FALSE, !.handled = << "effect" >>,
                                     !.calls = << >>]
             IN  IF ~view.isMobileBreakpoint /\ view.selectedTab \in mobileOnlyTabIds
                   THEN Selected(ran, "introduction")
                   ELSE ran
  /\ UNCHANGED << code, variant, externalLibrary, execTime, queryString, shortURL,
                  notifications, watcher, tasks, hash, hashCalls >>

\* the effect on [isMobileBreakpoint, selectedTab]
BreakpointEffect ==
  /\ view.effectDue
  /\ view' = LET ran == [view EXCEPT !.effectDue = FALSE, !.handled = << "effect" >>,
                                     !.calls = << >>]
             IN  IF view.isMobileBreakpoint /\ view.selectedTab \in desktopOnlyTabIds
                   THEN Selected(ran, "mobileEditor")
                   ELSE IF ~view.isMobileBreakpoint /\ view.selectedTab \in mobileOnlyTabIds
                     THEN Selected(ran, "introduction")
                     ELSE ran
  /\ UNCHANGED << code, variant, externalLibrary, execTime, queryString, shortURL,
                  notifications, watcher, tasks, hash, hashCalls >>

\* handleEditorUpdateBreakpoints(breakpoints), with some breakpoint set or none
EditorUpdateBreakpoints(some) ==
  /\ ~view.effectDue
  /\ view' = [view EXCEPT
                !.hasBreakpoints = some,
                !.handled = << "handleEditorUpdateBreakpoints" >>,
                !.calls = IF some
                            THEN IF view.playgroundSourceChapter <= 2
                                   THEN << UsingSubst(TRUE) >>
                                   ELSE << >>
                            ELSE IF view.selectedTab # "substVisualizer"
                                   THEN << ReplOutputClear, UsingSubst(FALSE) >>
                                   ELSE << >>]
  /\ UNCHANGED << code, variant, externalLibrary, execTime, queryString, shortURL,
                  notifications, watcher, tasks, hash, hashCalls >>

(***************************************************************************)
(* The specifications.                                                     *)
(***************************************************************************)
\* the steps of the shorten tasks in T
ShortenNext(T) ==
  \/ \E t \in T, keyword \in Keywords : ShortenURL(t, keyword)
  \/ \E t \in T : FetchRejects(t)
  \/ \E t \in T, ok \in BOOLEAN : FetchResponds(t, ok)
  \/ \E t \in T : JsonThrows(t)
  \/ \E t \in T, res \in Payloads \cup {Null} : JsonParsed(t, res)
  \/ \E t \in T : CallWins(t)
  \/ \E t \in T : Timeout(t)
  \/ \E t \in T : DelayLapses(t)

\* the steps of a run of updateQueryString
WatcherNext ==
  \/ GenerateLzString
  \/ SelectCode
  \/ PutEmpty
  \/ SelectVariant
  \/ SelectExternal
  \/ SelectExecTime
  \/ PutQueryString

\* The share flow: the user edits, sets the execution time, opens the share
\* popover (GENERATE_LZ_STRING) and asks for one short link.
Next ==
  \/ \E val \in EditTexts : EditorValueChange(val)
  \/ \E time \in ExecTimes : ChangeExecTime(time)
  \/ WatcherNext
  \/ ShortenNext({1})

Spec == Init /\ [][Next]_vars

\* Concurrent shorten tasks, one per SHORTEN_URL action, the workspace left alone.
NextShorten == ShortenNext(TaskIds)

SpecShorten == Init /\ [][NextShorten]_vars

\* The same tasks under the scheduling the runtime gives: a delay that is armed
\* fires, and a saga whose call has settled is resumed. Nothing is assumed of
\* the network.
ShortenFairness ==
  \A t \in TaskIds : WF_vars(Timeout(t)) /\ WF_vars(CallWins(t))

SpecShortenFair == SpecShorten /\ ShortenFairness

\* The encoder and the decoder on every snapshot: a link is generated from the
\* workspace and handed to handleHash.
InitCodec ==
  /\ code \in TextsUpTo(Alphabet, MaxLen)
  /\ variant = VariantDefault
  /\ externalLibrary \in {ExternalNone, ExternalRunes}
  /\ execTime \in ExecTimes
  /\ queryString = UndefinedText
  /\ shortURL = Undefined
  /\ notifications = << >>
  /\ watcher = IdleWatcher
  /\ tasks = [t \in TaskIds |-> IdleTask]
  /\ hash = UndefinedText
  /\ hashCalls = << >>
  /\ view = MountedView

NextCodec == WatcherNext \/ HandleHash

SpecCodec == InitCodec /\ [][NextCodec]_vars

\* The decoder on hashes of every kind. The exec parameter is absent, empty,
\* not a number, zero, negative, below, at and above 1000, or a number followed
\* by other characters; chap is absent, zero, a chapter, or not a number; the
\* program comes as prgrm, as lz, or not at all.
ExecValues ==
  { << >>, << "a", "b", "c" >>, << "0" >>, << "-", "5" >>, << "9", "9", "9" >>,
    << "1", "0", "0", "0" >>, << "1", "0", "0", "1" >>, << "2", "0", "0", "0" >>,
    << "5", "x" >>, << "2", "0", "0", "0", "x" >> }

ChapValues == { << "0" >>, << "1" >>, << "x" >> }

\* key=value, or nothing for a parameter that is absent
HashParam(key, value) ==
  IF value = UndefinedText THEN << >> ELSE << key \o << "=" >> \o value >>

RECURSIVE JoinParams(_)
JoinParams(params) ==
  IF params = << >>
    THEN << >>
    ELSE IF Len(params) = 1
      THEN params[1]
      ELSE params[1] \o << "&" >> \o JoinParams(Tail(params))

\* the hashes written by hand
TypedHashes ==
  { << "#" >> \o JoinParams(HashParam(KeyChap, chap) \o HashParam(KeyExec, exec) \o program) :
      chap \in ChapValues \cup {UndefinedText},
      exec \in ExecValues \cup {UndefinedText},
      program \in { << >>,
                    HashParam(KeyPrgrm, compressToEncodedURIComponent(<< "1" >>)),
                    HashParam(KeyLz, compressToEncodedURIComponent(<< "}" >>)) } }

\* the execution times a link is encoded with
Budgets == {0, 500, 999, 1000, 1001, 2000}

\* the links of the encoder
EncodedHashes ==
  { << "#" >> \o newQueryString(<< "1" >>, VariantDefault, ext, e) :
      ext \in {ExternalNone, ExternalRunes}, e \in Budgets }

\* the effect on [hash, ...]: handleHash(hash, propsRef.current) for a hash that
\* is not empty
HashEffect(h) ==
  /\ Quiet
  /\ h # << >>
  /\ hash' = h
  /\ hashCalls' = handleHash(h)
  /\ UNCHANGED << code, variant, externalLibrary, execTime, queryString, shortURL,
                  notifications, watcher, tasks, view >>

NextHash == \E h \in TypedHashes \cup EncodedHashes : HashEffect(h)

SpecHash == Init /\ [][NextHash]_vars

\* The tabs: the component is mounted on a viewport of either kind, for a
\* chapter of either kind, with or without add_device in the location; its
\* effects run, and the user clicks tabs, resizes and sets breakpoints.
InitTabs ==
  /\ code = defaultEditorValue
  /\ variant = VariantDefault
  /\ externalLibrary = ExternalNone
  /\ execTime = defaultExecTime
  /\ queryString = UndefinedText
  /\ shortURL = Undefined
  /\ notifications = << >>
  /\ watcher = IdleWatcher
  /\ tasks = [t \in TaskIds |-> IdleTask]
  /\ hash = UndefinedText
  /\ hashCalls = << >>
  /\ \E tab \in {"introduction", "remoteExecution"}, mobile \in BOOLEAN, chapter \in Chapters :
       view = [MountedView EXCEPT !.selectedTab = tab, !.isMobileBreakpoint = mobile,
                                  !.playgroundSourceChapter = chapter, !.effectDue = TRUE]

NextTabs ==
  \/ \E newTabId \in SideContentTypes, prevTabId \in SideContentTypes :
       OnChangeTabs(newTabId, prevTabId)
  \/ ResponsiveChange
  \/ BreakpointEffect
  \/ \E some \in BOOLEAN : EditorUpdateBreakpoints(some)

SpecTabs == InitTabs /\ [][NextTabs]_vars

(***************************************************************************)
(* The properties of the SHORTEN_URL handler.                              *)
(***************************************************************************)
\* C1: the first finisher of the race decides. When the delay fires while the
\* call is still pending, that step stores ERROR and shows the generic warning;
\* once a task has finished, whatever comes later for it (the late end of its
\* request, or the lapse of a cancelled delay) changes neither its outcome nor
\* the short URL nor the notifications.
C1_FirstFinisherDecides ==
  [][\A t \in TaskIds :
       /\ (tasks[t].pc = "racing" /\ tasks'[t].timer = "fired")
            => /\ shortURL' = errorMsg
               /\ notifications' = Append(notifications, showWarningMessage(GenericWarning))
               /\ tasks'[t].pc = "done"
       /\ (tasks[t].pc \in {"done", "threw"} /\ tasks'[t] # tasks[t])
            => /\ tasks'[t].pc = tasks[t].pc
               /\ shortURL' = shortURL
               /\ notifications' = notifications]_vars

\* C1 happens: a request ended after its task had timed out, and a cancelled
\* delay has lapsed after a call had won.
C1_LateCompletionReached ==
  \E t, u \in TaskIds :
    /\ tasks[t].timer = "fired" /\ tasks[t].net \in Ended /\ tasks[t].pc = "done"
    /\ tasks[u].timer = "lapsed" /\ tasks[u].pc = "done"

\* C2: when the call wins with a reply of status success that carries
\* url.keyword = k, the handler stores urlShortenerBase + k, shows no
\* notification and ends.
C2_SuccessStoresLink ==
  [][\A t \in TaskIds, res \in Payloads :
       ( /\ tasks[t].settled = [kind |-> "resolved", value |-> res]
         /\ tasks'[t].settled = NotSettled
         /\ res.status = "success"
         /\ res.url # NoUrl
         /\ res.url.keyword # Undefined )
       => /\ shortURL' = urlShortenerBase \o res.url.keyword
          /\ notifications' = notifications
          /\ tasks'[t].pc = "done"]_vars

\* C2 happens: a task whose call won has stored the link, nothing was shown.
C2_LinkStoredReached ==
  \E t \in TaskIds :
    /\ tasks[t].pc = "done"
    /\ tasks[t].timer \in {"cancelled", "lapsed"}
    /\ shortURL = urlShortenerBase \o "abc"
    /\ notifications = << >>

\* C3: when the call wins with a reply that has no shorturl and a status other
\* than success, the handler stores ERROR and shows exactly one warning, whose
\* text is the reply's message.
C3_ApplicationFailure ==
  [][\A t \in TaskIds, res \in Payloads :
       ( /\ tasks[t].settled = [kind |-> "resolved", value |-> res]
         /\ tasks'[t].settled = NotSettled
         /\ res.shorturl = Undefined
         /\ res.status # "success" )
       => /\ shortURL' = errorMsg
          /\ notifications' = Append(notifications, showWarningMessage(res.message))
          /\ tasks'[t].pc = "done"]_vars

\* C3 happens: the only notification is the warning with the server's message.
C3_ServerMessageReached ==
  /\ shortURL = errorMsg
  /\ notifications = << showWarningMessage("bad keyword") >>
  /\ \E t \in TaskIds : tasks[t].pc = "done" /\ tasks[t].net = "parsed"

\* C4: when the call wins with a reply that has a shorturl and a status other
\* than success, the handler shows the reply's message as a success notification
\* and stores urlShortenerBase + url.keyword.
C4_SoftFailureStoresLink ==
  [][\A t \in TaskIds, res \in Payloads :
       ( /\ tasks[t].settled = [kind |-> "resolved", value |-> res]
         /\ tasks'[t].settled = NotSettled
         /\ res.shorturl # Undefined
         /\ res.status # "success" )
       => /\ tasks'[t].pc = "done"
          /\ res.url # NoUrl
          /\ shortURL' = urlShortenerBase \o JsString(res.url.keyword)
          /\ notifications' = Append(notifications, showSuccessMessage(res.message))]_vars

\* C4 fails on the reply {status: "fail", message: "bad keyword", shorturl: ...}
\* that has no url field: the note was shown as a success, then the task threw
\* and stored nothing.
C4_ThrownAfterNoteReached ==
  \E t \in TaskIds :
    /\ tasks[t].pc = "threw"
    /\ shortURL = Undefined
    /\ notifications = << showSuccessMessage("bad keyword") >>

\* C5: every transport failure (fetch rejects, the response is not ok, the body
\* does not parse) ends the task as a timeout does: ERROR is stored and the
\* generic warning is shown.
C5_TransportFailure ==
  [][\A t \in TaskIds :
       ( /\ tasks[t].net \in {"fetchRejected", "notOk", "jsonThrew"}
         /\ tasks[t].settled # NotSettled
         /\ tasks'[t].settled = NotSettled )
       => /\ shortURL' = errorMsg
          /\ notifications' = Append(notifications, showWarningMessage(GenericWarning))
          /\ tasks'[t].pc = "done"]_vars

\* C5 happens: each of the three transport failures has ended a task.
C5_TransportFailuresReached ==
  /\ shortURL = errorMsg
  /\ \E t, u \in TaskIds :
       /\ tasks[t].pc = "done" /\ tasks[t].timer # "fired"
       /\ tasks[u].pc = "done" /\ tasks[u].timer # "fired"
       /\ tasks[t].net = "jsonThrew"
       /\ tasks[u].net \in {"fetchRejected", "notOk"}
  /\ notifications = << showWarningMessage(GenericWarning), showWarningMessage(GenericWarning) >>

\* C6: for every shape of the parsed reply the task ends by storing a link or
\* ERROR; no exception leaves the handler.
C6_NoExceptionEscapes == \A t \in TaskIds : tasks[t].pc # "threw"

\* C6 fails on the reply {status: "success"} that has no url field: the task
\* has thrown, and neither a link nor ERROR was stored, nothing was shown.
C6_ThrownReached ==
  \E t \in TaskIds :
    /\ tasks[t].pc = "threw"
    /\ shortURL = Undefined
    /\ notifications = << >>

(***************************************************************************)
(* The properties of the encoder and of the decoder.                       *)
(***************************************************************************)
\* C7: a finished run of updateQueryString on a text that is empty or is
\* defaultEditorValue has published the empty string, whatever the variant,
\* the external library and the execution time; on every other text it has
\* published a non-empty string.
C7_EmptyForDefault ==
  (watcher.pc = "idle" /\ queryString # UndefinedText)
    => ((code = << >> \/ code = defaultEditorValue) <=> queryString = << >>)

\* C7 happens: a run on the empty text, with a library and an execution time
\* that are not the defaults, has published the empty string.
C7_EmptyPublishedReached ==
  /\ watcher.pc = "idle"
  /\ code = << >>
  /\ externalLibrary = ExternalRunes
  /\ execTime # defaultExecTime
  /\ queryString = << >>

\* C8: when handleHash is given the query string published for a text that is
\* neither empty nor defaultEditorValue, it calls handleEditorValueChange once,
\* with exactly that text.
C8_RoundTrip ==
  (hash # UndefinedText /\ code # << >> /\ code # defaultEditorValue)
    => SelectSeq(hashCalls, LAMBDA call : call.fn = "handleEditorValueChange")
         = << [fn |-> "handleEditorValueChange", val |-> code] >>

\* C8 happens: the link of a text whose compressed form holds a "+" and whose
\* characters include one beyond 8 bits was decoded to that text.
C8_DecodedReached ==
  /\ hash # UndefinedText
  /\ code = << Wide, "+", "}" >>
  /\ \E i \in 1..Len(hash) : hash[i] = "%"
  /\ hashCalls[1] = [fn |-> "handleEditorValueChange", val |-> code]

C11_LastWriteWins ==
  [][\A t \in TaskIds :
       (tasks[t].pc = "racing" /\ tasks'[t].pc = "done")
       => /\ \A u \in TaskIds \ {t} : tasks'[u] = tasks[u]
          /\ shortURL' =
               IF \/ tasks'[t].timer = "fired"
                  \/ tasks[t].settled = [kind |-> "rejected"]
                  \/ tasks[t].settled = [kind |-> "resolved", value |-> Null]
                  \/ /\ tasks[t].settled.value.status # "success"
                     /\ tasks[t].settled.value.shorturl = Undefined
               THEN errorMsg
               ELSE urlShortenerBase \o JsString(tasks[t].settled.value.url.keyword)]_vars

\* C11 happens: task 2, forked after task 1 while task 1 was racing, timed out
\* and wrote ERROR; then task 1 got its reply and overwrote it with its link.
C11_EarlierOverwritesLaterReached ==
  /\ tasks[1].pc = "done" /\ tasks[1].net = "parsed" /\ tasks[1].timer \in {"cancelled", "lapsed"}
  /\ tasks[2].pc = "done" /\ tasks[2].timer = "fired"
  /\ \A u \in TaskIds \ {1, 2} : tasks[u].pc = "idle"
  /\ notifications = << showWarningMessage(GenericWarning) >>
  /\ shortURL = urlShortenerBase \o "abc"

C13_EventuallyWrites ==
  \A t \in TaskIds : (tasks[t].pc = "racing") ~> (tasks[t].pc = "done")

\* C13 fails on a reply without url: the race is over, the 10000 ms have
\* passed, and the task has ended without any write.
C13_EndedWithoutWriteReached ==
  /\ tasks[1].pc = "threw"
  /\ tasks[1].timer = "lapsed"
  /\ \A u \in TaskIds \ {1} : tasks[u] = IdleTask
  /\ shortURL = Undefined

\* C14: a run of updateQueryString encodes one consistent snapshot. While the
\* run is under way the text, the variant, the library and the execution time
\* in the store do not change, so what it has read are the values of the moment
\* of the trigger; and the step that ends the run stores the encoding of what it
\* read, whatever the stored query string was before (equal, empty or not).
C14_ConsistentSnapshot ==
  [][/\ watcher.pc # "idle" => workspace' = workspace
     /\ watcher.pc \notin {"idle", "selectCode"} => watcher.code = code
     /\ watcher.pc \in {"selectExternal", "selectExecTime", "put"} => watcher.variant = variant
     /\ watcher.pc \in {"selectExecTime", "put"} => watcher.external = externalLibrary
     /\ watcher.pc = "put" => watcher.execTime = execTime
     /\ (watcher.pc # "idle" /\ watcher'.pc = "idle")
          => /\ watcher.pc \in {"put", "putEmpty"}
             /\ queryString' =
                  IF watcher.pc = "putEmpty"
                    THEN << >>
                    ELSE newQueryString(watcher.code, watcher.variant,
                                        watcher.external, watcher.execTime)]_vars

\* C14 happens: a second run, on a snapshot with a changed execution time, is
\* about to replace the stored query string by an equal one.
C14_ReplacesEqualReached ==
  /\ watcher.pc = "put"
  /\ execTime = 2 * defaultExecTime
  /\ queryString = newQueryString(watcher.code, watcher.variant,
                                  watcher.external, watcher.execTime)

(***************************************************************************)
(* The properties of the side-content tabs.                                *)
(***************************************************************************)
\* C15: onChangeTabs(newTabId, prevTabId) leaves the selected tab as it is and
\* calls neither handleUsingSubst nor handleReplOutputClear when the two ids are
\* equal, or when prevTabId is substVisualizer and newTabId is mobileEditorRun;
\* in every other case the selected tab becomes newTabId.
C15_OnChangeTabs ==
  [][\A newTabId \in SideContentTypes, prevTabId \in SideContentTypes :
       view'.handled = << "onChangeTabs", newTabId, prevTabId >>
       => IF \/ newTabId = prevTabId
             \/ (prevTabId = "substVisualizer" /\ newTabId = "mobileEditorRun")
            THEN view'.selectedTab = view.selectedTab /\ view'.calls = << >>
            ELSE view'.selectedTab = newTabId]_vars

\* C15 happens: on the stepper tab, without breakpoints, the 'Run' tab was
\* clicked, and the stepper tab is still selected.
C15_RunOnStepperReached ==
  /\ view.handled = << "onChangeTabs", "mobileEditorRun", "substVisualizer" >>
  /\ view.selectedTab = "substVisualizer"
  /\ view.isMobileBreakpoint
  /\ ~view.hasBreakpoints
  /\ view.calls = << >>

C17_QueryStringReadOnce ==
  [][\A t \in TaskIds :
       /\ (tasks[t].pc = "idle" /\ tasks'[t].pc # "idle")
            => tasks'[t].url = RequestUrl(queryString)
       /\ tasks[t].pc # "idle" => tasks'[t].url = tasks[t].url]_vars

\* C17 happens: the request was sent before any query string was generated,
\* the watcher has since published one, and the link of the reply is stored.
C17_StaleLinkReached ==
  /\ tasks[1].pc = "done"
  /\ tasks[1].url = RequestUrl(UndefinedText)
  /\ queryString # UndefinedText
  /\ queryString # << >>
  /\ shortURL = urlShortenerBase \o "abc"

\* C18: the two tasks write disjoint state. A step of a run of
\* updateQueryString leaves the short URL, the notifications, the snapshot and
\* the shorten tasks as they are; a step of a shorten task, on success and on
\* every failure, leaves the query string, the snapshot and the watcher as they
\* are; an edit or a change of the execution time leaves the short URL.
C18_DisjointWrites ==
  [][/\ watcher' # watcher
          => /\ shortURL' = shortURL
             /\ notifications' = notifications
             /\ workspace' = workspace
             /\ tasks' = tasks
     /\ tasks' # tasks
          => /\ queryString' = queryString
             /\ workspace' = workspace
             /\ watcher' = watcher
     /\ queryString' # queryString => shortURL' = shortURL
     /\ workspace' # workspace => shortURL' = shortURL]_vars

\* C18 happens: the link was obtained for the text "1"; the text is now "}"
\* and the query string was generated again for it; the link is still stored.
C18_LinkSurvivesReached ==
  /\ tasks[1].pc = "done"
  /\ tasks[1].url = RequestUrl(updateQueryString(<< "1" >>, variant, externalLibrary, execTime))
  /\ code = << "}" >>
  /\ watcher.pc = "idle"
  /\ queryString = updateQueryString(code, variant, externalLibrary, execTime)
  /\ shortURL = urlShortenerBase \o "abc"

(***************************************************************************)
(* The properties of the decoder on any hash.                              *)
(***************************************************************************)
\* C19: for every hash, handleHash calls handleChangeExecTime exactly once,
\* with 1000 when exec is absent, is not a number, is zero or is below 1000,
\* and with the number parsed otherwise; so the link encoded with the
\* execution time e restores max(e, 1000); and a hash without chap, as the
\* encoder's links are, makes no call of handleChapterSelect.
C19_ExecTimeFloor ==
  hash # UndefinedText
    => LET qs        == parseQuery(hash)
           parsed    == stringParamToInt(Param(qs, KeyExec))
           execCalls == SelectSeq(hashCalls, LAMBDA call : call.fn = "handleChangeExecTime")
           chapCalls == SelectSeq(hashCalls, LAMBDA call : call.fn = "handleChapterSelect")
       IN  /\ Len(execCalls) = 1
           /\ execCalls[1].execTime >= 1000
           /\ execCalls[1].execTime =
                IF parsed = << >> \/ parsed[1] < 1000 THEN 1000 ELSE parsed[1]
           /\ Param(qs, KeyChap) = UndefinedText => chapCalls = << >>
           /\ \A ext \in {ExternalNone, ExternalRunes}, e \in Budgets :
                hash = << "#" >> \o newQueryString(<< "1" >>, VariantDefault, ext, e)
                  => /\ execCalls[1].execTime = Max(e, 1000)
                     /\ chapCalls = << >>

\* C19 happens: the link encoded with an execution time of 500 was decoded, and
\* the execution time it restored is 1000.
C19_FloorAppliedReached ==
  /\ hash = << "#" >> \o newQueryString(<< "1" >>, VariantDefault, ExternalNone, 500)
  /\ hashCalls = << [fn |-> "handleEditorValueChange", val |-> << "1" >>],
                    [fn |-> "handleChangeExecTime", execTime |-> 1000] >>

====
